---- MODULE Spec2Model ----
(***************************************************************************)
(* A model of servo's DOM event dispatch,                                  *)
(* src/components/script/dom/eventdispatcher.rs, fn dispatch_event.        *)
(*                                                                         *)
(* One call of dispatch_event is cut into steps at every point where a     *)
(* listener can observe or change the event record: the prologue (lines    *)
(* 16-41), one step per chain member reached and one per listener invoked  *)
(* in each of the three phases, and the epilogue (lines 119-129).          *)
(* Event, EventTarget and the listener callbacks live in files that are    *)
(* not part of src/; what the dispatcher needs from them is modelled from  *)
(* the specification (data model, section 3; interfaces, section 6).       *)
(***************************************************************************)
EXTENDS Integers, Sequences, FiniteSets, TLC

\* ------------------------------------------------------------- bounds
\* Number of ancestors of the deepest node (length of the longest chain).
MaxChain == 2
\* Total number of listener registrations over all event targets.
MaxListeners == 3
\* Number of changes (a listener registered, a node moved) that listener
\* bodies make to the listener registries and the tree during a dispatch.
MaxMutations == 1

\* ------------------------------------------------------------- values
None == -1
\* A non-node event target (is_node() is false: no ancestor chain).
Window == 0
Nodes == 1 .. (MaxChain + 1)
Targets == {Window} \cup Nodes
\* The node with the longest chain of ancestors.
Deepest == 1

PhaseNone == "none"
PhaseCapturing == "capturing"
PhaseAtTarget == "at_target"
PhaseBubbling == "bubbling"

\* ListenerPhase of a registration (dom::eventtarget).
Capturing == "Capturing"
Bubbling == "Bubbling"

\* Event types: listeners are registered for ListenerType; an event of
\* the other type finds no registration anywhere.
ListenerType == "click"
EventTypes == {"click", "load"}

\* What a listener body does with the event record it is handed.
Effects == {"nothing", "stop_propagation", "stop_immediate",
            "prevent_default", "throw", "redispatch"}

\* Listener bodies that change what the dispatch walks over: a listener is
\* registered on some target, or a node is detached or moved in the tree.
LiveEffects == {"add_listener", "set_parent"}
\* The listener bodies of the dispatches that are changed while they run.
LiveBodies == {"nothing", "stop_propagation"} \cup LiveEffects

VARIABLES
    handlers,   \* EventTarget.handlers: target -> registrations, in order
    parent,     \* Node.parent_node
    event,      \* the Event record
    pc,         \* position of the dispatch_event call
    target,     \* argument `target` of the running call
    type_,      \* local `type_` (line 28)
    chain,      \* local `chain` (line 31), nearest ancestor first
    roots,      \* local `roots`: the RootCollection, a stack (last = top)
    released,   \* chain members unrooted so far, in order of release
    todo,       \* chain members the running phase loop has yet to reach
    pending,    \* listeners the running inner loop has yet to invoke
    log,        \* history: every listener invocation, in order
    result,     \* return value of the call, once it has returned
    cause,      \* why the call terminated abnormally, if it did
    pseudo,     \* argument `pseudo_target` of the running call
    acquired,   \* history: chain members rooted, in order of acquisition
    snapshot,   \* history: the target's ancestors when the call began
    mutations   \* number of changes listener bodies have made so far

\* What only the prologue of a call writes.
callvars == <<pseudo, acquired, snapshot>>

vars == <<handlers, parent, event, pc, target, type_, chain, roots,
          released, todo, pending, log, result, cause, callvars,
          mutations>>

\* ------------------------------------------------------------ helpers
RECURSIVE Reverse(_)
Reverse(s) == IF s = <<>> THEN <<>> ELSE Append(Reverse(Tail(s)), Head(s))

RECURSIVE TotalLen(_, _)
TotalLen(h, S) ==
    IF S = {} THEN 0
    ELSE LET t == CHOOSE x \in S : TRUE
         IN Len(h[t]) + TotalLen(h, S \ {t})

\* ------------------------------------------------- Event (event.rs)
\* Event::new_inherited: every flag clear, phase none, no targets.
NewEvent(ty, bubbles) ==
    [type_ |-> ty, target |-> None, current_target |-> None,
     phase |-> PhaseNone, bubbles |-> bubbles,
     stop_propagation |-> FALSE, stop_immediate |-> FALSE,
     canceled |-> FALSE, dispatching |-> FALSE]

StopPropagation(ev) == [ev EXCEPT !.stop_propagation = TRUE]

\* stop-immediate-propagation implies stop-propagation.
StopImmediatePropagation(ev) ==
    [ev EXCEPT !.stop_immediate = TRUE, !.stop_propagation = TRUE]

PreventDefault(ev) == [ev EXCEPT !.canceled = TRUE]

DefaultPrevented(ev) == ev.canceled

\* --------------------------------------- EventTarget (eventtarget.rs)
IsNode(t) == t \in Nodes

\* Indices of the registrations of `t` for type `ty`, in registration order.
RECURSIVE IndicesFrom(_, _, _, _)
IndicesFrom(h, t, ty, i) ==
    IF i > Len(h[t]) THEN <<>>
    ELSE IF h[t][i].type_ = ty
         THEN <<i>> \o IndicesFrom(h, t, ty, i + 1)
         ELSE IndicesFrom(h, t, ty, i + 1)

RECURSIVE KeepPhase(_, _, _, _)
KeepPhase(h, t, s, desired) ==
    IF s = <<>> THEN <<>>
    ELSE IF h[t][Head(s)].phase = desired
         THEN <<Head(s)>> \o KeepPhase(h, t, Tail(s), desired)
         ELSE KeepPhase(h, t, Tail(s), desired)

\* get_listeners(type_): None when nothing is registered for the type,
\* else every listener registered for it, whatever its phase.
\* An Option is modelled as a sequence of length 0 (None) or 1 (Some).
get_listeners(h, t, ty) ==
    LET all == IndicesFrom(h, t, ty, 1)
    IN IF all = <<>> THEN <<>> ELSE <<all>>

\* get_listeners_for(type_, phase): None when nothing is registered for
\* the type, else the listeners registered for it with that phase.
get_listeners_for(h, t, ty, desired) ==
    LET all == IndicesFrom(h, t, ty, 1)
    IN IF all = <<>> THEN <<>> ELSE <<KeepPhase(h, t, all, desired)>>

\* addEventListener(type, listener, capture): the registration is appended
\* to the target's list. `at` is history: the number of listener
\* invocations of the dispatch made so far (0: before the dispatch).
Registering(h, t, phase, at) ==
    [h EXCEPT ![t] =
        Append(@, [type_ |-> ListenerType, phase |-> phase, at |-> at])]

\* ------------------------------------------------------ Node (node.rs)
\* target_node.ancestors(): parent, grandparent, ... up to the root.
RECURSIVE AncestorsFrom(_, _, _)
AncestorsFrom(p, n, fuel) ==
    IF fuel = 0 \/ p[n] = None THEN <<>>
    ELSE <<p[n]>> \o AncestorsFrom(p, p[n], fuel - 1)

Ancestors(p, n) == AncestorsFrom(p, n, Cardinality(Nodes))

\* Whether making `m` the parent of `n` keeps the tree a tree.
CanSetParent(p, n, m) ==
    /\ m # p[n]
    /\ m # None => (m # n /\ \A k \in 1 .. Len(Ancestors(p, m)) :
                              Ancestors(p, m)[k] # n)

\* Node::RemoveChild / AppendChild: `n` is detached (m = None) or moved
\* under `m`.
SetParent(p, n, m) == [p EXCEPT ![n] = m]

\* RootCollection (js.rs): root() pushes, dropping a Root removes it.
Root(r, x) == Append(r, x)

RECURSIVE Unroot(_, _)
Unroot(r, x) ==
    IF r = <<>> THEN <<>>
    ELSE IF r[Len(r)] = x THEN SubSeq(r, 1, Len(r) - 1)
         ELSE Append(Unroot(SubSeq(r, 1, Len(r) - 1), x), r[Len(r)])

\* ---------------------------------------- listener bodies (callbacks)
\* The event record after a listener body with effect `eff` has run.
ListenerBody(ev, eff) ==
    CASE eff = "stop_propagation" -> StopPropagation(ev)
      [] eff = "stop_immediate" -> StopImmediatePropagation(ev)
      [] eff = "prevent_default" -> PreventDefault(ev)
      [] OTHER -> ev

\* listener.HandleEvent__(event, ReportExceptions).is_ok(): the callback
\* returns Err when the listener body threw.
HandleEventIsOk(eff) == eff # "throw"

\* ----------------------------- dispatch_event, fragment by fragment
\* Faulty variant: the reentrancy assertion is missing.
AssertNotDispatching_Missing(ev) == TRUE

\* line 17: assert!(!event.get().dispatching)
AssertNotDispatching(ev) == ~ev.dispatching

\* Faulty variant: the pseudo target is ignored.
Addressed_IgnoresPseudo(ev, t, pseudo_target) ==
    [ev EXCEPT !.target = t, !.dispatching = TRUE]

\* lines 19-26: addressing, and the reentrancy guard is raised.
Addressed(ev, t, pseudo_target) ==
    [ev EXCEPT !.target = IF pseudo_target # None THEN pseudo_target ELSE t,
               !.dispatching = TRUE]

\* lines 31-39: the chain of ancestors, when the target is a node.
BuildChain(p, t) == IF IsNode(t) THEN Ancestors(p, t) ELSE <<>>

\* Faulty variant: the chain members are not rooted.
RootAll_None(r, c) == r

\* lines 33-36: every chain member is rooted as it is collected.
RECURSIVE RootAll(_, _)
RootAll(r, c) == IF c = <<>> THEN r ELSE RootAll(Root(r, Head(c)), Tail(c))

\* Faulty variant: the capturing loop walks the chain nearest first.
CaptureOrder_NearestFirst(c) == c

\* Faulty variant: the listener lists are those of the start of the call.
ListenersRead_AsAtStart(h) ==
    [t \in DOMAIN h |-> SelectSeq(h[t], LAMBDA e : e.at = 0)]

\* lines 47, 78, 96: the listener lists are read from the target when the
\* target is reached.
ListenersRead(h) == h

\* Faulty variant: the bubbling loop walks the ancestors the target has now.
ChainRead_Recomputed(c, p, t) == BuildChain(p, t)

\* lines 46, 95: both loops walk the local `chain` built at lines 31-39.
ChainRead(c, p, t) == c

\* line 46: chain.as_slice().rev_iter()
CaptureOrder(c) == Reverse(c)

\* line 95: chain.iter()
BubbleOrder(c) == c

\* Faulty variant: the listener loop never breaks.
BreaksListenerLoop_Never(ev) == FALSE

\* lines 55, 84, 104: if event.get().stop_immediate { break; }
BreaksListenerLoop(ev) == ev.stop_immediate

\* Faulty variant: the phase loop goes on to the next chain member
\* whatever the flag.
Stopped_Never(ev) == FALSE

\* lines 60/65 and 109/113: stopped = event.get().stop_propagation
Stopped(ev) == ev.stop_propagation

\* Faulty variant: the target phase is entered unconditionally.
EntersTargetPhase_Always(ev) == TRUE

\* line 71: if !event.get().stop_propagation
EntersTargetPhase(ev) == ~ev.stop_propagation

\* Faulty variants: the bubbling phase ignores the bubbles flag, or
\* ignores stop_propagation.
EntersBubblingPhase_IgnoresBubbles(ev) == ~ev.stop_propagation

EntersBubblingPhase_IgnoresStop(ev) == ev.bubbles

\* line 92: if event.get().bubbles && !event.get().stop_propagation
EntersBubblingPhase(ev) == ev.bubbles /\ ~ev.stop_propagation

\* Faulty variant: the chain entries are unrooted first to last.
RECURSIVE PopChain_FrontFirst(_, _, _)
PopChain_FrontFirst(c, r, rel) ==
    IF Len(c) > 0
    THEN PopChain_FrontFirst(Tail(c), Unroot(r, Head(c)), Append(rel, Head(c)))
    ELSE [chain |-> c, roots |-> r, released |-> rel]

\* lines 121-123: while chain.len() > 0 { let _ = chain.pop(); }
RECURSIVE PopChain(_, _, _)
PopChain(c, r, rel) ==
    IF Len(c) > 0
    THEN PopChain(SubSeq(c, 1, Len(c) - 1), Unroot(r, c[Len(c)]),
                  Append(rel, c[Len(c)]))
    ELSE [chain |-> c, roots |-> r, released |-> rel]

\* Faulty variant: the target phase asks for the bubbling listeners only.
TargetListeners_BubblingOnly(h, t, ty) == get_listeners_for(h, t, ty, Bubbling)

\* line 78: target.get().get_listeners(type_), with no phase.
TargetListeners(h, t, ty) == get_listeners(h, t, ty)

\* Faulty variant: the reset forgets the phase.
ResetEvent_KeepsPhase(ev) ==
    [ev EXCEPT !.dispatching = FALSE, !.current_target = None]

\* The locals of a call that fails are dropped as the task unwinds:
\* `chain`, declared last, first, and a Vec drops its elements first to last.
RECURSIVE DropChain(_, _, _)
DropChain(c, r, rel) ==
    IF c = <<>> THEN [chain |-> c, roots |-> r, released |-> rel]
    ELSE DropChain(Tail(c), Unroot(r, Head(c)), Append(rel, Head(c)))

\* Faulty variant: the reset also clears the stop flags.
ResetEvent_ClearsFlags(ev) ==
    [ev EXCEPT !.dispatching = FALSE, !.phase = PhaseNone,
               !.current_target = None, !.stop_propagation = FALSE,
               !.stop_immediate = FALSE]

\* lines 125-127
ResetEvent(ev) ==
    [ev EXCEPT !.dispatching = FALSE, !.phase = PhaseNone,
               !.current_target = None]

\* Faulty variant: the negation is missing.
ReturnValue_NotNegated(ev) == DefaultPrevented(ev)

\* line 129: !event.DefaultPrevented()
ReturnValue(ev) == ~DefaultPrevented(ev)

\* Faulty variant: the current target is not assigned.
AtChainMember_NotAssigned(ev, cur) == ev

\* lines 49 and 98: event.current_target.assign(Some(cur_target))
AtChainMember(ev, cur) == [ev EXCEPT !.current_target = cur]

\* lines 73-75
AtTarget(ev, t) == [ev EXCEPT !.phase = PhaseAtTarget, !.current_target = t]

\* ------------------------------------------------------------ history
\* What one listener invocation saw and left behind.
LogEntry(t, i, before, after, ok) ==
    [on |-> t, index |-> i, affinity |-> handlers[t][i].phase,
     phase |-> before.phase, current_target |-> before.current_target,
     target |-> before.target, dispatching |-> before.dispatching,
     stop_propagation |-> after.stop_propagation,
     stop_immediate |-> after.stop_immediate, canceled |-> after.canceled,
     ok |-> ok]

\* ------------------------------------------------------------ actions
Init ==
    /\ handlers = [t \in Targets |-> <<>>]
    /\ parent = [n \in Nodes |-> IF n + 1 \in Nodes THEN n + 1 ELSE None]
    /\ event \in {NewEvent(ty, b) : ty \in EventTypes, b \in BOOLEAN}
    /\ pc = "idle"
    /\ target = None
    /\ type_ = ""
    /\ chain = <<>>
    /\ roots = <<>>
    /\ released = <<>>
    /\ todo = <<>>
    /\ pending = <<>>
    /\ log = <<>>
    /\ result = None
    /\ cause = "none"
    /\ pseudo = None
    /\ acquired = <<>>
    /\ snapshot = <<>>
    /\ mutations = 0

\* EventTarget.addEventListener, before the dispatch.
AddEventListener(t, phase) ==
    /\ pc = "idle"
    /\ TotalLen(handlers, Targets) < MaxListeners
    /\ handlers' = Registering(handlers, t, phase, 0)
    /\ UNCHANGED <<parent, event, pc, target, type_, chain, roots, released,
                   todo, pending, log, result, cause,
                   callvars, mutations>>

\* lines 16-41. Called by the embedder (pc = "idle") or by a listener body
\* that is running (pc = "listener"), on the same event record.
DispatchEvent(t, pseudo_target) ==
    /\ pc \in {"idle", "listener"}
    /\ IF ~AssertNotDispatching(event)
       THEN /\ pc' = "failed"
            /\ cause' = "reentrant"
            /\ UNCHANGED <<handlers, parent, event, target, type_, chain,
                           roots, released, todo, pending, log, result,
                           callvars, mutations>>
       ELSE LET c == BuildChain(parent, t)
            IN /\ event' = [Addressed(event, t, pseudo_target)
                               EXCEPT !.phase = PhaseCapturing]
               /\ target' = t
               /\ type_' = event.type_
               /\ chain' = c
               /\ roots' = RootAll(<<>>, c)
               /\ todo' = CaptureOrder(c)
               /\ pending' = <<>>
               /\ pc' = "capturing"
               /\ pseudo' = pseudo_target
               /\ acquired' = RootAll(<<>>, c)
               /\ snapshot' = IF t \in Nodes THEN Ancestors(parent, t) ELSE <<>>
               /\ UNCHANGED <<handlers, parent, released, log, result, cause,
                              mutations>>

\* lines 53-57, 83-86, 102-106: one listener of `on` (cur_target in the
\* capturing and bubbling loops, target in the target phase) is invoked;
\* the assertion on its result; the stop_immediate break.
\* A failed assertion ends the call abnormally: pc = "failed" keeps the
\* record and the locals as they were when the assertion failed.
InvokeListener(on, eff) ==
    LET i == Head(pending)
        after == ListenerBody(event, eff)
    IN /\ pending # <<>>
       /\ log' = Append(log, LogEntry(on, i, event, after, HandleEventIsOk(eff)))
       /\ IF eff = "redispatch"
          THEN /\ pc' = "listener"
               /\ UNCHANGED <<event, pending, cause>>
          ELSE IF ~HandleEventIsOk(eff)
          THEN /\ pc' = "failed"
               /\ cause' = "listener_exception"
               /\ UNCHANGED <<event, pending>>
          ELSE /\ event' = after
               /\ pending' = IF BreaksListenerLoop(after) THEN <<>>
                             ELSE Tail(pending)
               /\ UNCHANGED <<pc, cause>>
       /\ IF eff = "add_listener"
          THEN /\ mutations < MaxMutations
               /\ TotalLen(handlers, Targets) < MaxListeners
               /\ \E t \in Targets, phase \in {Capturing, Bubbling} :
                     handlers' = Registering(handlers, t, phase, Len(log'))
               /\ mutations' = mutations + 1
               /\ UNCHANGED parent
          ELSE IF eff = "set_parent"
          THEN /\ mutations < MaxMutations
               /\ \E n \in Nodes, m \in Nodes \cup {None} :
                     /\ CanSetParent(parent, n, m)
                     /\ parent' = SetParent(parent, n, m)
               /\ mutations' = mutations + 1
               /\ UNCHANGED handlers
          ELSE UNCHANGED <<handlers, parent, mutations>>
       /\ UNCHANGED <<target, type_, chain, roots, released, todo, result,
                      callvars>>

\* lines 46-49, 62-67: the capturing loop reaches its next chain member.
CaptureNext ==
    /\ pc = "capturing"
    /\ IF todo = <<>>
       THEN /\ pc' = "target"
            /\ UNCHANGED <<event, todo, pending>>
       ELSE LET opt == get_listeners_for(ListenersRead(handlers), Head(todo),
                                              type_, Capturing)
            IN IF opt = <<>>
               THEN /\ todo' = Tail(todo)
                    /\ UNCHANGED <<event, pc, pending>>
               ELSE /\ event' = AtChainMember(event, Head(todo))
                    /\ pending' = opt[1]
                    /\ pc' = "capturing_listeners"
                    /\ UNCHANGED todo
    /\ UNCHANGED <<handlers, parent, target, type_, chain, roots, released,
                   log, result, cause,
                   callvars, mutations>>

\* lines 50-58
CaptureInvoke(eff) ==
    /\ pc = "capturing_listeners"
    /\ InvokeListener(Head(todo), eff)

\* lines 60, 65-67: the member's listeners are done.
CaptureAfter ==
    /\ pc = "capturing_listeners"
    /\ pending = <<>>
    /\ IF Stopped(event)
       THEN pc' = "target" /\ UNCHANGED todo
       ELSE pc' = "capturing" /\ todo' = Tail(todo)
    /\ UNCHANGED <<handlers, parent, event, target, type_, chain, roots,
                   released, pending, log, result, cause,
                   callvars, mutations>>

\* lines 71-78
TargetEnter ==
    /\ pc = "target"
    /\ IF EntersTargetPhase(event)
       THEN LET opt == TargetListeners(ListenersRead(handlers), target, type_)
            IN /\ event' = AtTarget(event, target)
               /\ pending' = IF opt = <<>> THEN <<>> ELSE opt[1]
               /\ pc' = "at_target"
       ELSE /\ pc' = "bubble"
            /\ UNCHANGED <<event, pending>>
    /\ UNCHANGED <<handlers, parent, target, type_, chain, roots, released,
                   todo, log, result, cause,
                   callvars, mutations>>

\* lines 79-88
TargetInvoke(eff) ==
    /\ pc = "at_target"
    /\ InvokeListener(target, eff)

\* line 89
TargetAfter ==
    /\ pc = "at_target"
    /\ pending = <<>>
    /\ pc' = "bubble"
    /\ UNCHANGED <<handlers, parent, event, target, type_, chain, roots,
                   released, todo, pending, log, result, cause,
                   callvars, mutations>>

\* lines 92-95
BubbleEnter ==
    /\ pc = "bubble"
    /\ IF EntersBubblingPhase(event)
       THEN /\ event' = [event EXCEPT !.phase = PhaseBubbling]
            /\ todo' = BubbleOrder(ChainRead(chain, parent, target))
            /\ pc' = "bubbling"
       ELSE /\ pc' = "teardown"
            /\ UNCHANGED <<event, todo>>
    /\ UNCHANGED <<handlers, parent, target, type_, chain, roots, released,
                   pending, log, result, cause,
                   callvars, mutations>>

\* lines 95-98, 111-116
BubbleNext ==
    /\ pc = "bubbling"
    /\ IF todo = <<>>
       THEN /\ pc' = "teardown"
            /\ UNCHANGED <<event, todo, pending>>
       ELSE LET opt == get_listeners_for(ListenersRead(handlers), Head(todo),
                                              type_, Bubbling)
            IN IF opt = <<>>
               THEN /\ todo' = Tail(todo)
                    /\ UNCHANGED <<event, pc, pending>>
               ELSE /\ event' = AtChainMember(event, Head(todo))
                    /\ pending' = opt[1]
                    /\ pc' = "bubbling_listeners"
                    /\ UNCHANGED todo
    /\ UNCHANGED <<handlers, parent, target, type_, chain, roots, released,
                   log, result, cause,
                   callvars, mutations>>

\* lines 99-107
BubbleInvoke(eff) ==
    /\ pc = "bubbling_listeners"
    /\ InvokeListener(Head(todo), eff)

\* lines 109, 113-115
BubbleAfter ==
    /\ pc = "bubbling_listeners"
    /\ pending = <<>>
    /\ IF Stopped(event)
       THEN pc' = "teardown" /\ UNCHANGED todo
       ELSE pc' = "bubbling" /\ todo' = Tail(todo)
    /\ UNCHANGED <<handlers, parent, event, target, type_, chain, roots,
                   released, pending, log, result, cause,
                   callvars, mutations>>

\* lines 119-129
Teardown ==
    /\ pc = "teardown"
    /\ LET popped == PopChain(chain, roots, released)
       IN /\ chain' = popped.chain
          /\ roots' = popped.roots
          /\ released' = popped.released
    /\ event' = ResetEvent(event)
    /\ result' = ReturnValue(event')
    /\ pc' = "done"
    /\ UNCHANGED <<handlers, parent, target, type_, todo, pending, log, cause,
                   callvars, mutations>>

\* A failed assertion (lines 17, 53, 83, 102) unwinds the call: lines
\* 119-127 are not reached, the locals declared at lines 16 and 31 are
\* dropped. Unrooting out of the order the RootCollection allows is
\* undefined: either the drop goes through (in_order_only = FALSE), or the
\* first out-of-order drop aborts the process with every hold in place.
Unwind(in_order_only) ==
    /\ pc = "failed"
    /\ IF in_order_only /\ Len(chain) > 1
       THEN /\ pc' = "aborted"
            /\ UNCHANGED <<chain, roots, released>>
       ELSE LET dropped == DropChain(chain, roots, released)
            IN /\ chain' = dropped.chain
               /\ roots' = dropped.roots
               /\ released' = dropped.released
               /\ pc' = "unwound"
    /\ UNCHANGED <<handlers, parent, event, target, type_, todo, pending,
                   log, result, cause, callvars, mutations>>

Next ==
    \/ \E t \in Targets, phase \in {Capturing, Bubbling} :
          AddEventListener(t, phase)
    \/ \E t \in Targets, pseudo_target \in {None, Window} :
          DispatchEvent(t, pseudo_target)
    \/ CaptureNext
    \/ \E eff \in Effects : CaptureInvoke(eff)
    \/ CaptureAfter
    \/ TargetEnter
    \/ \E eff \in Effects : TargetInvoke(eff)
    \/ TargetAfter
    \/ BubbleEnter
    \/ BubbleNext
    \/ \E eff \in Effects : BubbleInvoke(eff)
    \/ BubbleAfter
    \/ Teardown
    \/ \E in_order_only \in BOOLEAN : Unwind(in_order_only)

Spec == Init /\ [][Next]_vars

\* The dispatch of an event at the deepest node, with listener bodies that
\* also register listeners and change the tree while the dispatch runs.
NextLive ==
    \/ \E t \in Targets, phase \in {Capturing, Bubbling} :
          AddEventListener(t, phase)
    \/ \E t \in {Deepest} : DispatchEvent(t, None)
    \/ CaptureNext
    \/ \E eff \in LiveBodies : CaptureInvoke(eff)
    \/ CaptureAfter
    \/ TargetEnter
    \/ \E eff \in LiveBodies : TargetInvoke(eff)
    \/ TargetAfter
    \/ BubbleEnter
    \/ BubbleNext
    \/ \E eff \in LiveBodies : BubbleInvoke(eff)
    \/ BubbleAfter
    \/ Teardown

SpecLive == Init /\ [][NextLive]_vars

\* =============================================================== claims
LogIdx == 1 .. Len(log)

PhaseRank(p) ==
    CASE p = PhaseNone -> 0
      [] p = PhaseCapturing -> 1
      [] p = PhaseAtTarget -> 2
      [] p = PhaseBubbling -> 3

\* The ancestors of the dispatch target, nearest first, read off the tree
\* when the call began.
TargetAncestors == snapshot

InSeq(s, x) == \E k \in 1 .. Len(s) : s[k] = x

PosIn(s, x) == CHOOSE k \in 1 .. Len(s) : s[k] = x

\* The registrations of `t` for the event's type whose phase is in `phases`,
\* as <<target, index>> pairs in registration order.
RECURSIVE Registered(_, _, _)
Registered(t, phases, i) ==
    IF i > Len(handlers[t]) THEN <<>>
    ELSE IF handlers[t][i].type_ = event.type_ /\ handlers[t][i].phase \in phases
         THEN <<(<<t, i>>)>> \o Registered(t, phases, i + 1)
         ELSE Registered(t, phases, i + 1)

RECURSIVE RegisteredAlong(_, _)
RegisteredAlong(order, phases) ==
    IF order = <<>> THEN <<>>
    ELSE Registered(Head(order), phases, 1) \o RegisteredAlong(Tail(order), phases)

\* The <<target, index>> pairs of the invocations logged in phase `p`.
RECURSIVE InvokedIn(_, _)
InvokedIn(p, i) ==
    IF i > Len(log) THEN <<>>
    ELSE IF log[i].phase = p
         THEN <<(<<log[i].on, log[i].index>>)>> \o InvokedIn(p, i + 1)
         ELSE InvokedIn(p, i + 1)

\* --------------------------------------------------------------- C1
\* C1: during one call of dispatch_event the phase only moves along
\* none -> capturing -> at-target -> bubbling -> none: it leaves none only
\* for capturing, never moves backward, and is none before the call and
\* after the call has returned.
C1_PhaseMovesForward ==
    /\ [](pc \in {"idle", "done"} => event.phase = PhaseNone)
    /\ [][\/ event'.phase = event.phase
          \/ /\ event.phase = PhaseNone
             /\ event'.phase = PhaseCapturing
          \/ /\ event.phase # PhaseNone
             /\ PhaseRank(event'.phase) > PhaseRank(event.phase)
          \/ /\ event'.phase = PhaseNone
             /\ pc' = "done"]_vars

\* A returned call whose listeners saw all three phases.
C1_Witness ==
    /\ pc = "done"
    /\ event.phase = PhaseNone
    /\ \E i, j, k \in LogIdx :
          /\ log[i].phase = PhaseCapturing
          /\ log[j].phase = PhaseAtTarget
          /\ log[k].phase = PhaseBubbling

\* --------------------------------------------------------------- C2
\* C2: over the chain [a1 (nearest), ..., an (root)] the capturing-phase
\* invocations go member by member from an to a1 and are of capturing
\* listeners, the bubbling-phase invocations go from a1 to an and are of
\* bubbling listeners, and capturing invocations precede target-phase
\* invocations, which precede bubbling invocations; when propagation was
\* not stopped, every such listener is invoked, in exactly that order.
C2_TraversalOrder ==
    /\ \A i, j \in LogIdx : i < j =>
          /\ PhaseRank(log[i].phase) <= PhaseRank(log[j].phase)
          /\ (log[i].phase = PhaseCapturing /\ log[j].phase = PhaseCapturing)
                => PosIn(TargetAncestors, log[i].on)
                      >= PosIn(TargetAncestors, log[j].on)
          /\ (log[i].phase = PhaseBubbling /\ log[j].phase = PhaseBubbling)
                => PosIn(TargetAncestors, log[i].on)
                      <= PosIn(TargetAncestors, log[j].on)
    /\ \A i \in LogIdx :
          /\ log[i].phase = PhaseCapturing =>
                log[i].affinity = Capturing /\ InSeq(TargetAncestors, log[i].on)
          /\ log[i].phase = PhaseBubbling =>
                log[i].affinity = Bubbling /\ InSeq(TargetAncestors, log[i].on)
    /\ (pc = "done" /\ ~event.stop_propagation) =>
          /\ InvokedIn(PhaseCapturing, 1)
                = RegisteredAlong(Reverse(TargetAncestors), {Capturing})
          /\ InvokedIn(PhaseBubbling, 1)
                = IF event.bubbles
                  THEN RegisteredAlong(TargetAncestors, {Bubbling})
                  ELSE <<>>

\* Capturing listeners ran on two different ancestors, then a bubbling one.
C2_Witness ==
    /\ pc = "done"
    /\ \E i, j, k \in LogIdx :
          /\ i < j /\ j < k
          /\ log[i].phase = PhaseCapturing
          /\ log[j].phase = PhaseCapturing
          /\ log[i].on # log[j].on
          /\ log[k].phase = PhaseBubbling

\* --------------------------------------------------------------- C3
\* C3: when the event's bubbles flag is false, the phase is never
\* bubbling, and every listener invoked is either a capturing listener of
\* an ancestor invoked in the capturing phase or a listener of the target
\* itself: no bubbling listener of an ancestor is invoked.
C3_NonBubblingEvent ==
    ~event.bubbles =>
        /\ event.phase # PhaseBubbling
        /\ \A i \in LogIdx :
              /\ log[i].phase # PhaseBubbling
              /\ \/ /\ log[i].on # target
                    /\ InSeq(TargetAncestors, log[i].on)
                    /\ log[i].affinity = Capturing
                    /\ log[i].phase = PhaseCapturing
                 \/ /\ log[i].on = target
                    /\ log[i].phase = PhaseAtTarget

\* A non-bubbling event was delivered at its target, propagation was not
\* stopped, and an ancestor holds a bubbling listener for the event's type.
C3_Witness ==
    /\ pc = "done"
    /\ ~event.bubbles
    /\ ~event.stop_propagation
    /\ \E i \in LogIdx : log[i].phase = PhaseAtTarget
    /\ RegisteredAlong(TargetAncestors, {Bubbling}) # <<>>

\* --------------------------------------------------------------- C4
\* C4: once a listener invoked in the capturing phase has left
\* stop-propagation set, no listener of the target itself and no
\* bubbling-phase listener is invoked in the rest of the dispatch, and the
\* phase never becomes at-target or bubbling.
C4_StopInCapturing ==
    \A i \in LogIdx :
        (log[i].phase = PhaseCapturing /\ log[i].stop_propagation) =>
            /\ event.phase \notin {PhaseAtTarget, PhaseBubbling}
            /\ \A j \in LogIdx : j > i =>
                  /\ log[j].on # target
                  /\ log[j].phase = PhaseCapturing

\* Propagation was stopped in the capturing phase of a bubbling event whose
\* target and ancestors hold listeners that would otherwise have run.
C4_Witness ==
    /\ pc = "done"
    /\ event.bubbles
    /\ \E i \in LogIdx : log[i].phase = PhaseCapturing /\ log[i].stop_propagation
    /\ \/ Registered(target, {Capturing, Bubbling}, 1) # <<>>
       \/ RegisteredAlong(TargetAncestors, {Bubbling}) # <<>>

\* --------------------------------------------------------------- C5
\* The listeners of a target that a phase delivers to.
PhaseFilter(p) ==
    IF p = PhaseCapturing THEN {Capturing}
    ELSE IF p = PhaseBubbling THEN {Bubbling}
    ELSE {Capturing, Bubbling}

\* C5: in every phase, after a listener invoked at a target has left
\* stop-immediate-propagation set, no later listener of that target is
\* invoked in the same phase visit; and the listeners that precede an
\* invoked listener in the registration order of its visit have all run
\* before it.
C5_StopImmediate ==
    /\ \A i, j \in LogIdx :
          (i < j /\ log[i].on = log[j].on /\ log[i].phase = log[j].phase)
             => /\ ~log[i].stop_immediate
                /\ log[i].index < log[j].index
    /\ \A j \in LogIdx :
          \A k \in 1 .. (log[j].index - 1) :
              (/\ handlers[log[j].on][k].type_ = event.type_
               /\ handlers[log[j].on][k].phase \in PhaseFilter(log[j].phase))
                 => \E i \in 1 .. (j - 1) :
                       /\ log[i].on = log[j].on
                       /\ log[i].phase = log[j].phase
                       /\ log[i].index = k

\* The second of three listeners of a visit set stop-immediate-propagation:
\* the first had run, the third was not invoked.
C5_Witness ==
    /\ pc = "done"
    /\ Len(log) = 2
    /\ log[1].on = log[2].on
    /\ log[1].phase = log[2].phase
    /\ ~log[1].stop_immediate
    /\ log[2].stop_immediate
    /\ Len(Registered(log[2].on, PhaseFilter(log[2].phase), 1)) = 3

\* --------------------------------------------------------------- C6
\* C6: once a listener invoked in the target phase has called
\* stop-immediate-propagation, the bubbling phase is skipped: the phase
\* never becomes bubbling and no bubbling listener of an ancestor is invoked.
C6_StopImmediateAtTarget ==
    \A i \in LogIdx :
        (log[i].phase = PhaseAtTarget /\ log[i].stop_immediate) =>
            /\ event.phase # PhaseBubbling
            /\ \A j \in LogIdx : j > i => log[j].phase # PhaseBubbling

\* A bubbling event whose ancestors hold bubbling listeners, and a target
\* listener called stop-immediate-propagation.
C6_Witness ==
    /\ pc = "done"
    /\ event.bubbles
    /\ \E i \in LogIdx : log[i].phase = PhaseAtTarget /\ log[i].stop_immediate
    /\ RegisteredAlong(TargetAncestors, {Bubbling}) # <<>>

\* --------------------------------------------------------------- C7
\* C7: dispatch_event returns false exactly when default-prevented is set
\* on the record when dispatch finishes, which is exactly when some
\* listener of this dispatch set it; whether propagation was stopped plays
\* no part.
C7_ReturnValue ==
    pc = "done" =>
        /\ result \in BOOLEAN
        /\ (result = FALSE) <=> event.canceled
        /\ (result = FALSE) <=> (\E i \in LogIdx : log[i].canceled)

\* The call returned false after default-prevented and, by another
\* listener, stop-propagation had been set.
C7_Witness ==
    /\ pc = "done"
    /\ result = FALSE
    /\ event.stop_propagation
    /\ \E i \in LogIdx : log[i].canceled /\ ~log[i].stop_propagation

\* --------------------------------------------------------------- C8
\* C8: a call of dispatch_event on a record whose dispatching flag is
\* already true (made by a listener of the running dispatch) terminates
\* abnormally, and that call changes no field of the record, no local of
\* the running dispatch, and invokes no listener.
C8_ReentrantDispatchAborts ==
    /\ [](pc = "listener" => event.dispatching)
    /\ [][(pc = "listener") =>
             /\ pc' = "failed"
             /\ cause' = "reentrant"
             /\ event' = event
             /\ log' = log
             /\ <<target, type_, chain, roots, todo, pending>>'
                   = <<target, type_, chain, roots, todo, pending>>]_vars

\* A listener re-dispatched the record it was handed and the call failed.
C8_Witness ==
    /\ pc = "failed"
    /\ cause = "reentrant"
    /\ event.dispatching
    /\ log # <<>>

\* --------------------------------------------------------------- C9
\* C9: a listener invocation that fails with an exception does not end
\* the dispatch: the call never terminates abnormally because of it.
C9_ListenerExceptionAbsorbed ==
    \A i \in LogIdx : ~log[i].ok => ~(pc = "failed" /\ cause = "listener_exception")

\* -------------------------------------------------------------- C10
\* C10: the dispatching flag is true at every listener invocation, and it
\* is false once the call has exited, whether it returned or terminated
\* abnormally while listeners were being invoked.
C10_DispatchingFlag ==
    /\ \A i \in LogIdx : log[i].dispatching
    /\ pc \in {"done", "failed"} => ~event.dispatching

C13_ListenerSeesTargetAndPhase ==
    \A i \in LogIdx :
        /\ log[i].current_target = log[i].on
        /\ log[i].current_target # None
        /\ log[i].phase # PhaseNone
        /\ log[i].on = target => log[i].phase = PhaseAtTarget
        /\ log[i].on # target =>
              /\ InSeq(TargetAncestors, log[i].on)
              /\ log[i].affinity = Capturing => log[i].phase = PhaseCapturing
              /\ log[i].affinity = Bubbling => log[i].phase = PhaseBubbling

\* Listeners ran on two ancestors and on the target, in all three phases.
C13_Witness ==
    /\ Len(log) = 3
    /\ log[1].phase = PhaseCapturing
    /\ log[2].phase = PhaseAtTarget
    /\ log[3].phase = PhaseBubbling
    /\ log[1].on # log[3].on
    /\ log[2].current_target = target

\* -------------------------------------------------------------- C14
\* The target the call addresses the event to.
AddressedTo == IF pseudo # None THEN pseudo ELSE target

\* C14: the record's target is the pseudo target when one is supplied and
\* the dispatch target otherwise, at every listener invocation and after the
\* return; the members visited in the capturing and bubbling phases are
\* ancestors of the dispatch target and the listeners invoked in the target
\* phase are those of the dispatch target; and once the call has begun the
\* engine does not write target again.
C14_PseudoTarget ==
    /\ [](pc # "idle" =>
            /\ event.target = AddressedTo
            /\ \A i \in LogIdx :
                  /\ log[i].target = AddressedTo
                  /\ log[i].phase = PhaseAtTarget => log[i].on = target
                  /\ log[i].phase # PhaseAtTarget =>
                        InSeq(BuildChain(parent, target), log[i].on))
    /\ [][pc # "idle" => event'.target = event.target]_vars

\* A call with a pseudo target, at a node, has returned after listeners of
\* an ancestor and of the node itself were invoked.
C14_Witness ==
    /\ pc = "done"
    /\ pseudo # None
    /\ pseudo # target
    /\ event.target = pseudo
    /\ \E i, j \in LogIdx :
          /\ log[i].phase = PhaseCapturing
          /\ log[j].phase = PhaseAtTarget
          /\ log[j].on = target

\* -------------------------------------------------------------- C15
\* C15: in the capturing and in the bubbling phase, once a listener of
\* chain member M has left stop-propagation set without
\* stop-immediate-propagation, every later invocation of the dispatch is of
\* a listener of M in that same phase, in registration order, and (when no
\* later listener sets stop-immediate-propagation) every remaining listener
\* of M for that phase has been invoked by the time the call returns; no
\* listener of a chain member that comes after M is invoked.
C15_StopPropagationAtMember ==
    \A i \in LogIdx :
        (/\ log[i].phase \in {PhaseCapturing, PhaseBubbling}
         /\ log[i].stop_propagation
         /\ ~log[i].stop_immediate) =>
            /\ \A j \in LogIdx : j > i =>
                  /\ log[j].on = log[i].on
                  /\ log[j].phase = log[i].phase
                  /\ log[j].index > log[j - 1].index
            /\ (pc = "done" /\ ~event.stop_immediate) =>
                  \A k \in 1 .. Len(handlers[log[i].on]) :
                      (/\ k > log[i].index
                       /\ handlers[log[i].on][k].type_ = event.type_
                       /\ handlers[log[i].on][k].phase \in PhaseFilter(log[i].phase))
                         => \E j \in LogIdx :
                               /\ j > i
                               /\ log[j].on = log[i].on
                               /\ log[j].index = k

\* The first of two listeners of a chain member set stop-propagation, the
\* second was still invoked, and the listener that a later member holds for
\* the phase was not.
C15_Witness ==
    /\ pc = "done"
    /\ Len(log) = 2
    /\ log[1].phase \in {PhaseCapturing, PhaseBubbling}
    /\ log[1].stop_propagation
    /\ ~log[1].stop_immediate
    /\ log[2].on = log[1].on
    /\ \E t \in Nodes :
          /\ InSeq(TargetAncestors, t)
          /\ IF log[1].phase = PhaseCapturing
             THEN PosIn(TargetAncestors, t) < PosIn(TargetAncestors, log[1].on)
             ELSE PosIn(TargetAncestors, t) > PosIn(TargetAncestors, log[1].on)
          /\ Registered(t, PhaseFilter(log[1].phase), 1) # <<>>

\* -------------------------------------------------------------- C16
\* Whether `s` is what is left of `whole` after some of its first members.
IsSuffix(s, whole) ==
    /\ Len(s) <= Len(whole)
    /\ s = SubSeq(whole, Len(whole) - Len(s) + 1, Len(whole))

\* Whether the listener registered as handlers[t][k] before the call began
\* was invoked in phase `p`.
InvokedAt(t, k, p) ==
    \E j \in LogIdx : log[j].on = t /\ log[j].index = k /\ log[j].phase = p

\* C16: whatever listeners do to the tree while the dispatch runs, the
\* members the capturing and bubbling loops have yet to visit are those of
\* the chain as it was when the call began, in its order; every listener
\* invoked in these phases is on a member of that chain; and, propagation
\* not stopped, every listener that a member of that chain held when the
\* call began has been invoked by the time the call returns.
C16_ChainIsSnapshot ==
    /\ pc \in {"capturing", "capturing_listeners"} =>
          IsSuffix(todo, Reverse(snapshot))
    /\ pc \in {"bubbling", "bubbling_listeners"} =>
          IsSuffix(todo, snapshot)
    /\ \A i, j \in LogIdx :
          /\ log[i].phase # PhaseAtTarget => InSeq(snapshot, log[i].on)
          /\ (i < j /\ log[i].phase = PhaseCapturing /\ log[j].phase = PhaseCapturing)
                => PosIn(snapshot, log[i].on) >= PosIn(snapshot, log[j].on)
          /\ (i < j /\ log[i].phase = PhaseBubbling /\ log[j].phase = PhaseBubbling)
                => PosIn(snapshot, log[i].on) <= PosIn(snapshot, log[j].on)
    /\ (pc = "done" /\ ~event.stop_propagation) =>
          \A m \in 1 .. Len(snapshot) :
              \A k \in 1 .. Len(handlers[snapshot[m]]) :
                  LET reg == handlers[snapshot[m]][k]
                  IN (reg.at = 0 /\ reg.type_ = event.type_) =>
                        /\ reg.phase = Capturing =>
                              InvokedAt(snapshot[m], k, PhaseCapturing)
                        /\ (reg.phase = Bubbling /\ event.bubbles) =>
                              InvokedAt(snapshot[m], k, PhaseBubbling)

\* After a listener changed the tree, the bubbling loop is at a member of
\* the chain that is no longer an ancestor of the target, about to invoke
\* its listener.
C16_Witness ==
    /\ pc = "bubbling_listeners"
    /\ pending # <<>>
    /\ log # <<>>
    /\ InSeq(snapshot, Head(todo))
    /\ ~InSeq(Ancestors(parent, target), Head(todo))

\* -------------------------------------------------------------- C17
\* Whether, while the listener of log entry `a` ran, the visit of `t` in
\* phase `p` was still to come.
NotYetVisited(a, t, p) ==
    CASE p = PhaseCapturing ->
            /\ log[a].phase = PhaseCapturing
            /\ InSeq(snapshot, t)
            /\ PosIn(snapshot, t) < PosIn(snapshot, log[a].on)
      [] p = PhaseAtTarget ->
            /\ log[a].phase = PhaseCapturing
            /\ t = target
      [] p = PhaseBubbling ->
            /\ InSeq(snapshot, t)
            /\ \/ log[a].phase \in {PhaseCapturing, PhaseAtTarget}
               \/ /\ log[a].phase = PhaseBubbling
                  /\ PosIn(snapshot, t) > PosIn(snapshot, log[a].on)

\* The phases that deliver to the registration `reg` of `t`.
DeliveredIn(t, reg) ==
    IF t = target THEN {PhaseAtTarget}
    ELSE IF reg.phase = Capturing THEN {PhaseCapturing}
    ELSE IF event.bubbles THEN {PhaseBubbling}
    ELSE {}

\* C17: a listener that a listener of the dispatch registered, for the
\* event's type, on a chain member or on the target whose visit in the
\* phase that delivers to it was still to come, has been invoked in that
\* phase by the time the call returns, provided propagation was not
\* stopped.
C17_ListenersReadWhenReached ==
    (pc = "done" /\ ~event.stop_propagation) =>
        \A t \in Targets :
            \A k \in 1 .. Len(handlers[t]) :
                LET reg == handlers[t][k]
                IN (reg.at >= 1 /\ reg.type_ = event.type_) =>
                      \A p \in DeliveredIn(t, reg) :
                          NotYetVisited(reg.at, t, p) => InvokedAt(t, k, p)

\* A listener registered by a listener of the dispatch was invoked later in
\* the same dispatch.
C17_Witness ==
    /\ pc = "done"
    /\ \E t \in Targets :
          \E k \in 1 .. Len(handlers[t]) :
              /\ handlers[t][k].at >= 1
              /\ \E j \in LogIdx :
                    /\ j > handlers[t][k].at
                    /\ log[j].on = t
                    /\ log[j].index = k

\* -------------------------------------------------------------- C18
\* C18: the target phase invokes listeners of the dispatch target only;
\* within one target and phase no listener is invoked twice and listeners
\* are invoked in registration order; and when the target phase ran to its
\* end (propagation not stopped in the capturing phase, no
\* stop-immediate-propagation in the target phase) its invocations are
\* exactly the listeners registered on the target for the event's type,
\* capturing and bubbling alike, in registration order.
C18_TargetPhaseDelivery ==
    /\ \A i, j \in LogIdx :
          /\ log[i].phase = PhaseAtTarget => log[i].on = target
          /\ (i < j /\ log[i].on = log[j].on /\ log[i].phase = log[j].phase)
                => log[i].index < log[j].index
    /\ (/\ pc = "done"
        /\ \A i \in LogIdx :
              /\ log[i].phase = PhaseCapturing => ~log[i].stop_propagation
              /\ log[i].phase = PhaseAtTarget => ~log[i].stop_immediate)
          => InvokedIn(PhaseAtTarget, 1)
                = Registered(target, {Capturing, Bubbling}, 1)

\* The target phase invoked a capturing and a bubbling listener of the
\* target.
C18_Witness ==
    /\ pc = "done"
    /\ \E i, j \in LogIdx :
          /\ log[i].phase = PhaseAtTarget
          /\ log[j].phase = PhaseAtTarget
          /\ log[i].affinity = Capturing
          /\ log[j].affinity = Bubbling
          /\ log[i].on = target
          /\ log[j].on = target

\* -------------------------------------------------------------- C19
\* The call has begun and has neither returned nor failed.
Running ==
    pc \in {"capturing", "capturing_listeners", "target", "at_target",
            "bubble", "bubbling", "bubbling_listeners", "teardown",
            "listener"}

AllHeld(r) == \A m \in 1 .. Len(snapshot) : InSeq(r, snapshot[m])

\* C19: from the end of the prologue until the epilogue of a call, and so
\* whenever one of its listeners is invoked, every member of its chain is
\* held and no hold has been released, whether or not propagation was
\* stopped; a listener invocation releases no hold.
C19_ChainHeldWhileListenersRun ==
    /\ [](Running => (AllHeld(roots) /\ released = <<>>))
    /\ [][log' # log =>
             /\ AllHeld(roots)
             /\ AllHeld(roots')
             /\ released' = <<>>]_vars

\* Over a chain of two members a listener has stopped propagation and the
\* next listener of the member is about to be invoked, both holds in place.
C19_Witness ==
    /\ pc \in {"capturing_listeners", "bubbling_listeners"}
    /\ pending # <<>>
    /\ log # <<>>
    /\ event.stop_propagation
    /\ Len(snapshot) >= 2
    /\ AllHeld(roots)

\* -------------------------------------------------------------- C20
\* The fields of the record that listeners, not the engine, write.
ListenerFlags(ev) == <<ev.stop_propagation, ev.stop_immediate, ev.canceled>>

\* C20: the epilogue of a call that returns sets dispatching to false,
\* phase to none and current-target to unset, and leaves target, type,
\* bubbles, stop-propagation, stop-immediate-propagation and
\* default-prevented as they were; no step of the engine other than a
\* listener invocation changes a stop flag or default-prevented, so that
\* after the return they are as the last listener left them.
C20_TeardownFrame ==
    /\ [][(pc = "teardown" /\ pc' = "done") =>
             /\ event'.dispatching = FALSE
             /\ event'.phase = PhaseNone
             /\ event'.current_target = None
             /\ event'.target = event.target
             /\ event'.type_ = event.type_
             /\ event'.bubbles = event.bubbles
             /\ ListenerFlags(event') = ListenerFlags(event)]_vars
    /\ [][log' = log => ListenerFlags(event') = ListenerFlags(event)]_vars
    /\ []((pc = "done" /\ log # <<>>) =>
             ListenerFlags(event) = <<log[Len(log)].stop_propagation,
                                      log[Len(log)].stop_immediate,
                                      log[Len(log)].canceled>>)

\* A call has returned with stop-immediate-propagation and
\* default-prevented still set and the record idle again.
C20_Witness ==
    /\ pc = "done"
    /\ event.stop_immediate
    /\ event.canceled
    /\ event.target # None
    /\ event.current_target = None
    /\ event.phase = PhaseNone
    /\ ~event.dispatching

====
